---- MODULE Spec2Model ----
(***************************************************************************)
(* Model of scripts/process-airtable-event.js: the attachment              *)
(* reconciliation and dual-path upload pipeline (main,                     *)
(* attachIcsWithFallback, uploadIcsToGithubRelease,                        *)
(* updateAirtableTimestampField) run against a record store (Airtable)     *)
(* and a fallback asset host (GitHub release).                             *)
(*                                                                         *)
(* Every await of the script is one action: the request, the store's       *)
(* reply (chosen by \E) and the local code that follows up to the next     *)
(* await.  The stores keep their state in the variables attachments,       *)
(* marker, releaseExists and assets; a request that is answered with an    *)
(* error leaves the store unchanged.                                       *)
(*                                                                         *)
(* Strings are TLA+ strings, "" stands for a missing/empty JSON property.  *)
(***************************************************************************)
EXTENDS Integers, Sequences, FiniteSets, TLC

\* ---------------------------------------------------------------- bounds
MaxRuns == 2        \* invocations of the script per behaviour
MaxStale == 2       \* attachments in the field before the first run
MaxClock == 1       \* the clock stops advancing here
MaxText == 3        \* characters of a text drawn in full from the alphabet
MaxPad == 67        \* plain characters in front of such a text in a long title
NumProcs == 2       \* process slots (the second one runs only when runs overlap)

\* ---------------------------------------------- configuration of the run
TicksPerDay == 2    \* clock ticks in one UTC day
RecordId == "rec1"
AttachmentField == "ICS"
UpdatedAtField == "ICS_update"
ReleaseTag == "airtable-ics-assets"
OtherAssetName == "other.ics"

Procs == 1..NumProcs

\* main: const filename = `${recordId}.ics`
FileName == RecordId \o ".ics"

\* ------------------------------------------------------------ small helpers
Last(s) == s[Len(s)]

RECURSIVE SelectAssets(_, _)
SelectAssets(s, name) ==
  IF s = <<>> THEN <<>>
  ELSE IF Head(s).name = name THEN <<Head(s)>> \o SelectAssets(Tail(s), name)
       ELSE SelectAssets(Tail(s), name)

RECURSIVE RemoveAsset(_, _)
RemoveAsset(s, id) ==
  IF s = <<>> THEN <<>>
  ELSE IF Head(s).id = id THEN RemoveAsset(Tail(s), id)
       ELSE <<Head(s)>> \o RemoveAsset(Tail(s), id)

\* nonEmptyString: a string that is empty or only whitespace becomes "";
\* every other string of the model carries no surrounding whitespace, so
\* trimming leaves it as it is.
BlankStrings == {"", " "}
nonEmptyString(value) == IF value \in BlankStrings THEN "" ELSE value

\* ------------------------------------------------------ the record store
\* An attachment held by the record's attachment field.  content is the
\* number of the run whose artifact it holds (0: a file that was there
\* before the first run, -1: nothing could be downloaded); src is the URL
\* it was created from ("" when it was uploaded directly).
AttId(n) == "att" \o ToString(n)
AttUrl(id) == "https://dl.airtable.com/" \o id
AssetUrl(tag, name) == "https://github.com/releases/download/" \o tag \o "/" \o name

StaleAttachment(n) ==
  [id |-> AttId(n), filename |-> FileName, content |-> 0, src |-> ""]

\* What a download of url yields: the content of the attachment or of the
\* release asset that the URL names, -1 when there is none.
ContentAt(url, atts, assetSeq) ==
  IF \E i \in 1..Len(atts) : AttUrl(atts[i].id) = url
    THEN LET i == CHOOSE i \in 1..Len(atts) : AttUrl(atts[i].id) = url
         IN atts[i].content
  ELSE IF \E i \in 1..Len(assetSeq) : AssetUrl(ReleaseTag, assetSeq[i].name) = url
    THEN LET i == CHOOSE i \in 1..Len(assetSeq) :
                    AssetUrl(ReleaseTag, assetSeq[i].name) = url
         IN assetSeq[i].content
  ELSE -1

\* A JSON attachment object as the code sees it.
Null == [id |-> "", url |-> "", filename |-> ""]
Renders == {"full", "urlOnly", "urlNoName"}
Render(att, render) ==
  [id |-> IF render = "full" THEN att.id ELSE "",
   url |-> AttUrl(att.id),
   filename |-> IF render = "urlNoName" THEN "" ELSE att.filename]

RenderAll(atts, render) == [i \in 1..Len(atts) |-> Render(atts[i], render)]

\* PATCH {fields: {[attachmentField]: refs}}: the field becomes the list
\* refs.  An entry with an id keeps the attachment of the field that has
\* this id and is rejected when the field has none; an entry with a url
\* makes the store download the URL into a new attachment.
PatchAccepts(atts, refs) ==
  \A k \in 1..Len(refs) :
    IF refs[k].id # "" THEN \E i \in 1..Len(atts) : atts[i].id = refs[k].id
    ELSE refs[k].url # ""

PatchResult(atts, refs, assetSeq, newId) ==
  [k \in 1..Len(refs) |->
     IF refs[k].id # ""
       THEN LET i == CHOOSE i \in 1..Len(atts) : atts[i].id = refs[k].id
            IN atts[i]
       ELSE [id |-> AttId(newId + k - 1), filename |-> refs[k].filename,
             content |-> ContentAt(refs[k].url, atts, assetSeq),
             src |-> refs[k].url]]

\* ------------------------------------------------------ marker values
\* now.toISOString() is a date and a time of day; .slice(0, 10) keeps the
\* date.  time = -1 stands for a value without a time of day, date = -1 for
\* an empty field.
NoTime == -1
BlankMarker == [date |-> -1, time |-> NoTime]
toISOString(t) == [date |-> t \div TicksPerDay, time |-> t % TicksPerDay]
slice10(iso) == [date |-> iso.date, time |-> NoTime]
\* The instant a marker value denotes (a date-only value is midnight UTC).
Instant(v) == v.date * TicksPerDay + (IF v.time = NoTime THEN 0 ELSE v.time)
Representation(v) == IF v.time = NoTime THEN "date" ELSE "datetime"

\* ------------------------------------------------------------- pure code
\* A normalization that copies the url next to the id.
normalizeAttachmentForPatchKeepUrl(attachment, fallbackFilename) ==
  LET attachmentId == nonEmptyString(attachment.id)
      attachmentUrl == nonEmptyString(attachment.url)
      filename == IF nonEmptyString(attachment.filename) # ""
                    THEN nonEmptyString(attachment.filename)
                    ELSE fallbackFilename
  IN IF attachmentId # ""
       THEN [id |-> attachmentId, url |-> attachmentUrl, filename |-> ""]
     ELSE IF attachmentUrl = "" THEN Null
     ELSE [id |-> "", url |-> attachmentUrl, filename |-> filename]

\* normalizeAttachmentForPatch
normalizeAttachmentForPatch(attachment, fallbackFilename) ==
  LET attachmentId == nonEmptyString(attachment.id)
      attachmentUrl == nonEmptyString(attachment.url)
      filename == IF nonEmptyString(attachment.filename) # ""
                    THEN nonEmptyString(attachment.filename)
                    ELSE fallbackFilename
  IN IF attachmentId # "" THEN [id |-> attachmentId, url |-> "", filename |-> ""]
     ELSE IF attachmentUrl = "" THEN Null
     ELSE [id |-> "", url |-> attachmentUrl, filename |-> filename]

\* An upload response: isObject is false for an empty or non-JSON body;
\* id, url, filename are the response's own properties; a location that is
\* absent has has = FALSE.
Absent == [has |-> FALSE, list |-> <<>>]
Present(list) == [has |-> TRUE, list |-> list]
EmptyObject ==
  [isObject |-> TRUE, isArray |-> FALSE, id |-> "", url |-> "", filename |-> "",
   fields |-> Absent, direct |-> Absent, attachments |-> Absent,
   attachment |-> Absent, items |-> <<>>]

ResponseShapes ==
  {"recordFields", "fields", "direct", "attachments", "attachment", "bare",
   "array", "unrecognized", "empty"}

\* The reply of the uploadAttachment endpoint in one of the shapes the code
\* allows for, describing the field after the upload (atts, the new
\* attachment last).
UploadResponse(shape, render, atts) ==
  LET all == RenderAll(atts, render)
      new == Render(Last(atts), render)
  IN CASE shape = "recordFields" ->
            [EmptyObject EXCEPT !.id = RecordId, !.fields = Present(all)]
       [] shape = "fields" -> [EmptyObject EXCEPT !.fields = Present(all)]
       [] shape = "direct" -> [EmptyObject EXCEPT !.direct = Present(all)]
       [] shape = "attachments" -> [EmptyObject EXCEPT !.attachments = Present(all)]
       [] shape = "attachment" -> [EmptyObject EXCEPT !.attachment = Present(<<new>>)]
       [] shape = "bare" ->
            [EmptyObject EXCEPT !.id = new.id, !.url = new.url,
                                !.filename = new.filename]
       [] shape = "array" -> [EmptyObject EXCEPT !.isArray = TRUE, !.items = all]
       [] shape = "unrecognized" -> EmptyObject
       [] shape = "empty" -> [EmptyObject EXCEPT !.isObject = FALSE]

\* The candidates array of extractLatestAttachmentFromUploadResponse.
Candidates(response) ==
  IF ~response.isObject THEN <<>>
  ELSE (IF response.fields.has THEN response.fields.list ELSE <<>>)
       \o (IF response.direct.has THEN response.direct.list ELSE <<>>)
       \o (IF response.attachments.has THEN response.attachments.list ELSE <<>>)
       \o (IF response.attachment.has THEN response.attachment.list ELSE <<>>)
       \o (IF response.isArray THEN response.items ELSE <<>>)
       \o <<[id |-> response.id, url |-> response.url,
             filename |-> response.filename]>>

\* for (let i = candidates.length - 1; i >= 0; i -= 1) ...
RECURSIVE LastUsable(_, _, _)
LastUsable(candidates, i, fallbackFilename) ==
  IF i = 0 THEN Null
  ELSE LET normalized == normalizeAttachmentForPatch(candidates[i], fallbackFilename)
       IN IF normalized # Null THEN normalized
          ELSE LastUsable(candidates, i - 1, fallbackFilename)

extractLatestAttachmentFromUploadResponse(response, fallbackFilename) ==
  LET candidates == Candidates(response)
  IN LastUsable(candidates, Len(candidates), fallbackFilename)

\* A re-fetch that takes the oldest entry of the list.
RefetchPickFirst(existingAttachments) == Head(existingAttachments)

\* The choice of the re-fetched list's element (attachIcsWithFallback:
\* existingAttachments[existingAttachments.length - 1]).
RefetchPick(existingAttachments) == Last(existingAttachments)

\* ------------------------------------------------- resolveAirtableConfig
\* A JSON object is a record; a property it lacks is undefined.
RECURSIVE pickString(_, _)
\* pickString: the first of the properties keys of obj that is a non-empty
\* string, "" when there is none.
pickString(obj, keys) ==
  IF keys = <<>> THEN ""
  ELSE IF Head(keys) \in DOMAIN obj /\ nonEmptyString(obj[Head(keys)]) # ""
    THEN nonEmptyString(obj[Head(keys)])
    ELSE pickString(obj, Tail(keys))

\* An entry of the config file that is not a JSON object.
NotAnObject == [json |-> "string"]

\* A choice of the profile that takes some entry when several exist.
automationKeyAnyEntry(payloadAutomationKey, availableKeys) ==
  IF payloadAutomationKey # "" THEN payloadAutomationKey
  ELSE IF availableKeys # {} THEN CHOOSE k \in availableKeys : TRUE
  ELSE ""

\* const automationKey = payloadAutomationKey ||
\*   (availableKeys.length === 1 ? availableKeys[0] : "")
automationKeyOf(payloadAutomationKey, availableKeys) ==
  IF payloadAutomationKey # "" THEN payloadAutomationKey
  ELSE IF Cardinality(availableKeys) = 1 THEN CHOOSE k \in availableKeys : TRUE
  ELSE ""

ConfigError(message) ==
  [error |-> message, automationKey |-> "", baseId |-> "", tableIdOrName |-> "",
   attachmentField |-> "", updatedAtField |-> ""]

\* resolveAirtableConfig (with parseAutomationConfigFile): the config it
\* returns, or the error it throws; configMap maps the keys of the config
\* file to its entries.
resolveAirtableConfig(payload, airtableToken, configMap) ==
  LET recordId == nonEmptyString(payload.recordId)
      tableFromPayload == nonEmptyString(payload.tableName)
      availableKeys == DOMAIN configMap
      payloadAutomationKey == nonEmptyString(payload.automationKey)
      automationKey == automationKeyOf(payloadAutomationKey, availableKeys)
      found == automationKey \in availableKeys /\ configMap[automationKey] # NotAnObject
      selected == IF found THEN configMap[automationKey] ELSE [none |-> ""]
      baseId == pickString(selected, <<"baseId", "airtableBaseId">>)
      profileTable == pickString(selected, <<"tableId", "tableName", "table">>)
      tableIdOrName == IF tableFromPayload # "" THEN tableFromPayload ELSE profileTable
      attachmentField ==
        pickString(selected, <<"icsField", "attachmentField", "airtableIcsField">>)
      updatedAtField ==
        pickString(selected, <<"updatedAtField", "airtableUpdatedAtField">>)
  IN IF recordId = "" THEN ConfigError("missing recordId")
     ELSE IF airtableToken = "" THEN ConfigError("missing AIRTABLE_TOKEN")
     ELSE IF availableKeys = {} THEN ConfigError("config file is empty")
     ELSE IF automationKey = "" THEN ConfigError("multiple automation configs")
     ELSE IF ~found THEN ConfigError("automationKey was not found")
     ELSE IF baseId = "" THEN ConfigError("missing baseId")
     ELSE IF tableIdOrName = "" THEN ConfigError("missing table")
     ELSE IF attachmentField = "" THEN ConfigError("missing icsField")
     ELSE IF updatedAtField = "" THEN ConfigError("missing updatedAtField")
     ELSE [error |-> "", automationKey |-> automationKey, baseId |-> baseId,
           tableIdOrName |-> tableIdOrName, attachmentField |-> attachmentField,
           updatedAtField |-> updatedAtField]

\* ------------------------------------------------------------- ICS text
\* A text is a sequence of characters.
BS == "\\"
LF == "\n"
CR == "\r"

RECURSIVE ReplaceAll(_, _, _)
\* String.prototype.replace with a global pattern that matches the literal
\* characters pattern, scanning from the left.
ReplaceAll(text, pattern, replacement) ==
  IF Len(text) < Len(pattern) THEN text
  ELSE IF SubSeq(text, 1, Len(pattern)) = pattern
    THEN replacement
           \o ReplaceAll(SubSeq(text, Len(pattern) + 1, Len(text)), pattern,
                         replacement)
    ELSE <<Head(text)>> \o ReplaceAll(Tail(text), pattern, replacement)

\* An escaping that doubles the backslashes after the other replacements.
escapeIcsTextBackslashLast(value) ==
  LET a == ReplaceAll(value, <<CR, LF>>, <<BS, "n">>)
      b == ReplaceAll(a, <<LF>>, <<BS, "n">>)
      c == ReplaceAll(b, <<",">>, <<BS, ",">>)
      d == ReplaceAll(c, <<";">>, <<BS, ";">>)
  IN ReplaceAll(d, <<BS>>, <<BS, BS>>)

\* escapeIcsText
escapeIcsText(value) ==
  LET a == ReplaceAll(value, <<BS>>, <<BS, BS>>)
      b == ReplaceAll(a, <<CR, LF>>, <<BS, "n">>)
      c == ReplaceAll(b, <<LF>>, <<BS, "n">>)
      d == ReplaceAll(c, <<",">>, <<BS, ",">>)
  IN ReplaceAll(d, <<";">>, <<BS, ";">>)

\* foldIcsLine(line, maxLen = 75)
DefaultMaxLen == 75

RECURSIVE Chunks(_, _)
\* while (remaining.length > maxLen) { chunks.push(...) } chunks.push(remaining)
Chunks(remaining, maxLen) ==
  IF Len(remaining) > maxLen
    THEN <<SubSeq(remaining, 1, maxLen)>>
           \o Chunks(SubSeq(remaining, maxLen + 1, Len(remaining)), maxLen)
    ELSE <<remaining>>

RECURSIVE Join(_, _)
\* Array.prototype.join
Join(chunks, separator) ==
  IF Len(chunks) = 0 THEN <<>>
  ELSE IF Len(chunks) = 1 THEN chunks[1]
  ELSE chunks[1] \o separator \o Join(Tail(chunks), separator)

FoldMarker == <<CR, LF, " ">>

foldIcsLine(line, maxLen) ==
  IF Len(line) <= maxLen THEN line
  ELSE Join(Chunks(line, maxLen), FoldMarker)

SummaryName == <<"S", "U", "M", "M", "A", "R", "Y", ":">>
LocationName == <<"L", "O", "C", "A", "T", "I", "O", "N", ":">>

DescriptionName == <<"D", "E", "S", "C", "R", "I", "P", "T", "I", "O", "N", ":">>

\* foldIcsLine(`NAME:${escapeIcsText(value)}`)
TextLine(name, value) == foldIcsLine(name \o escapeIcsText(value), DefaultMaxLen)

\* if (value) { lines.push(...) }: a line that is left out is empty.
OptionalTextLine(name, value) == IF value # <<>> THEN TextLine(name, value) ELSE <<>>

\* A UID that carries the time of the build as well.
buildIcsUidPerBuild(recordId, eventName, startDate, endDate, location, description, now) ==
  [uid |-> "UID:airtable-" \o recordId \o "-" \o ToString(now) \o "@airtable-wf",
   dtstamp |-> now,
   dtstart |-> startDate,
   dtend |-> endDate,
   summary |-> TextLine(SummaryName, eventName),
   location |-> OptionalTextLine(LocationName, location),
   description |-> OptionalTextLine(DescriptionName, description)]

\* buildIcs: the lines of the VEVENT that depend on the arguments, by
\* property name; now is new Date().
buildIcs(recordId, eventName, startDate, endDate, location, description, now) ==
  [uid |-> "UID:airtable-" \o recordId \o "@airtable-wf",
   dtstamp |-> now,
   dtstart |-> startDate,
   dtend |-> endDate,
   summary |-> TextLine(SummaryName, eventName),
   location |-> OptionalTextLine(LocationName, location),
   description |-> OptionalTextLine(DescriptionName, description)]

\* isInvalidValueForColumnError: the error message holds the reply's body.
InvalidValueBody == "INVALID_VALUE_FOR_COLUMN"
OtherErrorBody == "SERVER_ERROR"
isInvalidValueForColumnError(error) == error.body = InvalidValueBody

\* ------------------------------------------------------------------ state
VARIABLES
  attachments,    \* the record's attachment field (a list)
  marker,         \* the record's marker field
  releaseExists,  \* the fallback container exists
  assets,         \* the assets of the fallback container (a list)
  nextAttId,      \* ids the record store hands out
  nextAssetId,    \* ids the asset host hands out
  clock,          \* current time
  runNo,          \* number of runs started
  lastOutcome,    \* how the run that exited last ended
  exitStatus,     \* the exit status of the process that exited last
  overlap,        \* the invoker lets runs for the record overlap
  pc,             \* per process: the await it is at
  loc,            \* per process: the local variables of the run
  reqs,           \* per process: the requests the run has sent
  call,           \* a function of the script applied on its own: its arguments
  ret             \* ... and what it returned

vars == <<attachments, marker, releaseExists, assets, nextAttId, nextAssetId,
          clock, runNo, lastOutcome, exitStatus, overlap, pc, loc, reqs,
          call, ret>>

storeVars == <<attachments, marker, nextAttId>>
hostVars == <<releaseExists, assets, nextAssetId>>
envVars == <<clock, runNo, lastOutcome, exitStatus, overlap>>
runVars == <<pc, loc, reqs>>
unitVars == <<call, ret>>

NoError == [step |-> "", body |-> "", mentions |-> {}]
ErrorAt(step, body) == [step |-> step, body |-> body, mentions |-> {}]

InitLoc ==
  [run |-> 0, startedAt |-> 0, markerAtStart |-> BlankMarker,
   attachmentsAtStart |-> <<>>,
   latestAttachment |-> Null, primaryFailure |-> "",
   existingAsset |-> 0, hadAsset |-> FALSE, createdRelease |-> FALSE,
   assetUrl |-> "", result |-> [method |-> "", assetUrl |-> ""],
   now |-> -1, candidate |-> 0, sent |-> <<>>, error |-> NoError]

StaleAsset == [id |-> 1, name |-> FileName, content |-> 0]
OtherAsset == [id |-> 2, name |-> OtherAssetName, content |-> 0]
InitialAssetLists == {<<OtherAsset>>, <<OtherAsset, StaleAsset>>}

\* No process has exited yet.
NoExit == -1

InitCommon ==
  /\ \E n \in 0..MaxStale : attachments = [i \in 1..n |-> StaleAttachment(i)]
  /\ marker = BlankMarker
  /\ \/ releaseExists = FALSE /\ assets = <<>>
     \/ releaseExists = TRUE /\ assets \in InitialAssetLists
  /\ nextAttId = MaxStale + 1
  /\ nextAssetId = 3
  /\ clock = 0
  /\ runNo = 0
  /\ lastOutcome = "none"
  /\ exitStatus = NoExit
  /\ pc = [p \in Procs |-> "idle"]
  /\ loc = [p \in Procs |-> InitLoc]
  /\ reqs = [p \in Procs |-> <<>>]

\* No function is applied on its own.
NoCall == [fn |-> ""]
NoResult == [ready |-> FALSE]

Init == InitCommon /\ overlap = FALSE /\ call = NoCall /\ ret = NoResult

\* ---------------------------------------------------------------- actions
\* The run sends request op from the await it is at and gets reply.
Sent(p, op, reply) ==
  reqs' = [reqs EXCEPT ![p] = Append(@, [op |-> op, at |-> pc[p], reply |-> reply])]

Fail(p, step, body) ==
  /\ pc' = [pc EXCEPT ![p] = "failed"]
  /\ loc' = [loc EXCEPT ![p].error = ErrorAt(step, body)]

\* The invoker starts the script for the record.
StartRun(p) ==
  /\ pc[p] = "idle"
  /\ runNo < MaxRuns
  /\ overlap \/ (p = 1 /\ \A q \in Procs : pc[q] = "idle")
  /\ runNo' = runNo + 1
  /\ pc' = [pc EXCEPT ![p] = "fetch"]
  /\ loc' = [loc EXCEPT ![p] = [InitLoc EXCEPT !.run = runNo + 1,
                                              !.startedAt = clock,
                                              !.markerAtStart = marker,
                                              !.attachmentsAtStart = attachments]]
  /\ UNCHANGED <<unitVars, storeVars, hostVars, clock, lastOutcome, exitStatus, overlap,
                  reqs>>

Tick ==
  /\ clock < MaxClock
  /\ clock' = clock + 1
  /\ UNCHANGED <<unitVars, storeVars, hostVars, runNo, lastOutcome, exitStatus, overlap,
                  pc, loc, reqs>>

\* ------------------------------------------------- main: fetch and validate
\* Values a record field can hold.
Titles == {"", " ", "Standup"}
DateValues ==
  {[kind |-> "missing", t |-> 0], [kind |-> "invalid", t |-> 0]}
    \cup {[kind |-> "date", t |-> t] : t \in 0..1}

\* normalizeText(fields[eventNameField]).trim()
TrimText(value) == IF value \in BlankStrings THEN "" ELSE value

\* parseDate: "" when the value parses, else the error it throws.
parseDateError(value) ==
  IF value.kind = "missing" THEN "Missing required Airtable field"
  ELSE IF value.kind = "invalid" THEN "Invalid date in Airtable field"
  ELSE ""

\* A range check that lets an event end at the instant it starts.
ValidationErrorEndBeforeStart(title, start, end) ==
  IF TrimText(title) = "" THEN "Missing required Airtable field"
  ELSE IF parseDateError(start) # "" THEN parseDateError(start)
  ELSE IF parseDateError(end) # "" THEN parseDateError(end)
  ELSE IF end.t < start.t THEN "Invalid event range"
  ELSE ""

\* main, lines 702-714: "" when the record is valid, else the error thrown.
ValidationError(title, start, end) ==
  IF TrimText(title) = "" THEN "Missing required Airtable field"
  ELSE IF parseDateError(start) # "" THEN parseDateError(start)
  ELSE IF parseDateError(end) # "" THEN parseDateError(end)
  ELSE IF end.t <= start.t THEN "Invalid event range"
  ELSE ""

\* A validation whose error is noted while the run goes on.
FetchRecordWarnsOnly(p) ==
  /\ pc[p] = "fetch"
  /\ \/ /\ Sent(p, "fetchRecord", "error")
        /\ Fail(p, "fetchRecord", OtherErrorBody)
     \/ /\ Sent(p, "fetchRecord", "ok")
        /\ \E title \in Titles, start \in DateValues, end \in DateValues :
             LET invalid == ValidationError(title, start, end)
             IN /\ pc' = [pc EXCEPT ![p] = "upload"]
                /\ loc' = [loc EXCEPT ![p].error = ErrorAt("validate", invalid)]
  /\ UNCHANGED <<unitVars, storeVars, hostVars, envVars>>

\* main: fetchAirtableRecord, validation, buildIcs.
FetchRecord(p) ==
  /\ pc[p] = "fetch"
  /\ \/ /\ Sent(p, "fetchRecord", "error")
        /\ Fail(p, "fetchRecord", OtherErrorBody)
     \/ /\ Sent(p, "fetchRecord", "ok")
        /\ \E title \in Titles, start \in DateValues, end \in DateValues :
             LET invalid == ValidationError(title, start, end)
             IN IF invalid # ""
                  THEN Fail(p, "validate", invalid)
                  ELSE /\ pc' = [pc EXCEPT ![p] = "upload"]
                       /\ UNCHANGED loc
  /\ UNCHANGED <<unitVars, storeVars, hostVars, envVars>>

\* ------------------------------------- attachIcsWithFallback: primary path
\* A try block that ends after the upload request.
insideTryUploadOnly(statement) == statement = "upload"

\* The statements of attachIcsWithFallback that lie inside try { ... }.
insideTry(statement) == statement \in {"upload", "refetch", "unresolved", "patch"}

\* A catch block that throws the error on.
PrimaryThrowsRethrown(p, statement) == Fail(p, statement, OtherErrorBody)

\* A catch block that starts the primary path again.
PrimaryThrowsRetried(p, statement) ==
  IF insideTry(statement)
    THEN /\ pc' = [pc EXCEPT ![p] = "upload"]
         /\ loc' = [loc EXCEPT ![p].primaryFailure = statement,
                               ![p].latestAttachment = Null]
    ELSE Fail(p, statement, OtherErrorBody)

\* An error thrown by statement of the primary path: caught by
\* catch (error) { console.warn(...) } and followed by the fallback path
\* when the statement is inside the try block, fatal otherwise.
PrimaryThrows(p, statement) ==
  IF insideTry(statement)
    THEN /\ pc' = [pc EXCEPT ![p] = "fallback"]
         /\ loc' = [loc EXCEPT ![p].primaryFailure = statement,
                               ![p].latestAttachment = Null]
    ELSE Fail(p, statement, OtherErrorBody)

\* uploadAttachmentToAirtable and extractLatestAttachmentFromUploadResponse.
PrimaryUpload(p) ==
  /\ pc[p] = "upload"
  /\ \/ /\ Sent(p, "uploadAttachment", "error")
        /\ PrimaryThrows(p, "upload")
        /\ UNCHANGED storeVars
     \/ LET new == [id |-> AttId(nextAttId), filename |-> FileName,
                    content |-> loc[p].run, src |-> ""]
            atts == Append(attachments, new)
        IN /\ Sent(p, "uploadAttachment", "ok")
           /\ attachments' = atts
           /\ nextAttId' = nextAttId + 1
           /\ UNCHANGED marker
           /\ \E shape \in ResponseShapes, render \in Renders :
                LET uploadResponse == UploadResponse(shape, render, atts)
                    latestAttachment ==
                      extractLatestAttachmentFromUploadResponse(uploadResponse, FileName)
                IN /\ loc' = [loc EXCEPT ![p].latestAttachment = latestAttachment]
                   /\ pc' = [pc EXCEPT ![p] =
                               IF latestAttachment = Null THEN "refetch" ELSE "patch"]
  /\ UNCHANGED <<unitVars, hostVars, envVars>>

\* if (!latestAttachment) { refreshed = await fetchAirtableRecord(...) ... }
\* if (!latestAttachment) { throw ... }
Refetch(p) ==
  /\ pc[p] = "refetch"
  /\ \/ /\ Sent(p, "fetchRecord", "error")
        /\ PrimaryThrows(p, "refetch")
     \/ LET existingAttachments == RenderAll(attachments, "full")
            latestAttachment ==
              IF Len(existingAttachments) > 0
                THEN normalizeAttachmentForPatch(RefetchPick(existingAttachments),
                                                 FileName)
                ELSE Null
        IN /\ Sent(p, "fetchRecord", "ok")
           /\ IF latestAttachment = Null
                THEN PrimaryThrows(p, "unresolved")
                ELSE /\ loc' = [loc EXCEPT ![p].latestAttachment = latestAttachment]
                     /\ pc' = [pc EXCEPT ![p] = "patch"]
  /\ UNCHANGED <<unitVars, storeVars, hostVars, envVars>>

\* A patch body that lists the reference twice.
attachmentFieldValueTwice(reference) == <<reference, reference>>

\* fields: { [attachmentField]: [latestAttachment] } and
\* fields: { [attachmentField]: [{ url: assetUrl, filename }] }
attachmentFieldValue(reference) == <<reference>>

\* A primary return that reports the fallback method.
primaryResultAsFallback == [method |-> "github_release_url", assetUrl |-> ""]

\* return { method: "airtable_upload_attachment" }
primaryResult == [method |-> "airtable_upload_attachment", assetUrl |-> ""]

\* return { method: "github_release_url", assetUrl }
fallbackResult(assetUrl) == [method |-> "github_release_url", assetUrl |-> assetUrl]

\* attachIcsWithFallback returns result and main calls
\* updateAirtableTimestampField: const now = new Date().
ReturnAttached(p, result) ==
  /\ pc' = [pc EXCEPT ![p] = "marker"]
  /\ loc' = [loc EXCEPT ![p].result = result,
                        ![p].latestAttachment = Null,
                        ![p].assetUrl = "",
                        ![p].now = clock,
                        ![p].candidate = 1]

\* The store applies an accepted PATCH of the attachment field.
ApplyPatch(refs) ==
  /\ PatchAccepts(attachments, refs)
  /\ attachments' = PatchResult(attachments, refs, assets, nextAttId)
  /\ nextAttId' = nextAttId + Len(refs)
  /\ UNCHANGED marker

\* updateAirtableRecord({fields: {[attachmentField]: [latestAttachment]}})
PatchPrimary(p) ==
  /\ pc[p] = "patch"
  /\ \/ /\ Sent(p, "patchAttachment", "error")
        /\ PrimaryThrows(p, "patch")
        /\ UNCHANGED storeVars
     \/ /\ Sent(p, "patchAttachment", "ok")
        /\ ApplyPatch(attachmentFieldValue(loc[p].latestAttachment))
        /\ ReturnAttached(p, primaryResult)
  /\ UNCHANGED <<unitVars, hostVars, envVars>>

\* ------------------------------------ attachIcsWithFallback: fallback path
\* process.env.GITHUB_TOKEN, process.env.GITHUB_REPOSITORY
FallbackEnv(p) ==
  /\ pc[p] = "fallback"
  /\ \E configured \in BOOLEAN :
       IF configured
         THEN /\ pc' = [pc EXCEPT ![p] = "gh_lookup"]
              /\ UNCHANGED loc
         ELSE Fail(p, "fallbackEnv", "Fallback upload requires GITHUB_TOKEN")
  /\ UNCHANGED <<unitVars, storeVars, hostVars, envVars, reqs>>

\* uploadIcsToGithubRelease: String(release.upload_url || "").split("{")[0].
\* Whether the release data carries an upload_url is chosen where the code
\* reads it.
CheckUploadUrl(p, l) ==
  \E hasUploadUrl \in BOOLEAN :
    IF hasUploadUrl
      THEN /\ pc' = [pc EXCEPT ![p] = "gh_upload"]
           /\ loc' = [loc EXCEPT ![p] = l]
      ELSE /\ pc' = [pc EXCEPT ![p] = "failed"]
           /\ loc' = [loc EXCEPT ![p] =
                        [l EXCEPT !.error = ErrorAt("uploadUrl", "upload_url is missing")]]

\* A lookup that never finds an asset.
FindExistingAssetNone(releaseAssets, filename) == 0

\* release.assets.find((asset) => asset && asset.name === filename): the id
\* of the asset found, 0 when there is none.
FindExistingAsset(releaseAssets, filename) ==
  LET same == SelectAssets(releaseAssets, filename)
  IN IF same = <<>> THEN 0 ELSE Head(same).id

\* uploadIcsToGithubRelease once getOrCreateGithubRelease returned release.
AfterRelease(p, releaseAssets, created) ==
  LET existingAsset == FindExistingAsset(releaseAssets, FileName)
      l == [loc[p] EXCEPT !.existingAsset = existingAsset,
                          !.hadAsset = SelectAssets(releaseAssets, FileName) # <<>>,
                          !.createdRelease = created]
  IN IF existingAsset # 0
       THEN /\ pc' = [pc EXCEPT ![p] = "gh_delete"]
            /\ loc' = [loc EXCEPT ![p] = l]
       ELSE CheckUploadUrl(p, l)

\* A lookup that goes on to create the release after any failure.
GhLookupCreateOnError(p) ==
  /\ pc[p] = "gh_lookup"
  /\ \/ /\ releaseExists
        /\ Sent(p, "getRelease", "ok")
        /\ AfterRelease(p, assets, FALSE)
     \/ /\ ~releaseExists
        /\ Sent(p, "getRelease", "notFound")
        /\ pc' = [pc EXCEPT ![p] = "gh_create"]
        /\ UNCHANGED loc
     \/ /\ Sent(p, "getRelease", "error")
        /\ pc' = [pc EXCEPT ![p] = "gh_create"]
        /\ UNCHANGED loc
  /\ UNCHANGED <<unitVars, storeVars, hostVars, envVars>>

\* getOrCreateGithubRelease: GET releases/tags/{tag}
GhLookup(p) ==
  /\ pc[p] = "gh_lookup"
  /\ \/ /\ releaseExists
        /\ Sent(p, "getRelease", "ok")
        /\ AfterRelease(p, assets, FALSE)
     \/ /\ ~releaseExists
        /\ Sent(p, "getRelease", "notFound")
        /\ pc' = [pc EXCEPT ![p] = "gh_create"]
        /\ UNCHANGED loc
     \/ /\ Sent(p, "getRelease", "error")
        /\ Fail(p, "getRelease", OtherErrorBody)
  /\ UNCHANGED <<unitVars, storeVars, hostVars, envVars>>

\* getOrCreateGithubRelease: POST releases
GhCreate(p) ==
  /\ pc[p] = "gh_create"
  /\ \/ /\ ~releaseExists
        /\ Sent(p, "createRelease", "ok")
        /\ releaseExists' = TRUE
        /\ AfterRelease(p, <<>>, TRUE)
     \/ /\ Sent(p, "createRelease", "error")
        /\ Fail(p, "createRelease", OtherErrorBody)
        /\ UNCHANGED releaseExists
  /\ UNCHANGED <<unitVars, storeVars, assets, nextAssetId, envVars>>

\* A delete whose reply is never looked at.
deleteToleratedAlways(reply) == TRUE

\* The replies to DELETE releases/assets/{id}; the code goes on after
\* deleted.ok and after status 404.
DeleteReplies == {"ok", "notFound", "error"}

deleteTolerated(reply) == reply = "ok" \/ reply = "notFound"

\* DELETE releases/assets/{existingAsset.id}.  A not-found reply means the
\* asset is gone when the request arrives (someone else removed it); an
\* error reply leaves the asset in place.
GhDelete(p) ==
  /\ pc[p] = "gh_delete"
  /\ \E reply \in DeleteReplies :
       /\ Sent(p, "deleteAsset", reply)
       /\ assets' = IF reply = "error" THEN assets
                    ELSE RemoveAsset(assets, loc[p].existingAsset)
       /\ IF deleteTolerated(reply)
            THEN CheckUploadUrl(p, loc[p])
            ELSE Fail(p, "deleteAsset", OtherErrorBody)
  /\ UNCHANGED <<unitVars, storeVars, releaseExists, nextAssetId, envVars>>

\* An upload that goes on to the patch without reading the download URL.
GhUploadUnchecked(p) ==
  /\ pc[p] = "gh_upload"
  /\ \/ /\ Sent(p, "uploadAsset", "error")
        /\ Fail(p, "uploadAsset", OtherErrorBody)
        /\ UNCHANGED <<assets, nextAssetId>>
     \/ /\ releaseExists
        /\ assets' = Append(assets, [id |-> nextAssetId, name |-> FileName,
                                     content |-> loc[p].run])
        /\ nextAssetId' = nextAssetId + 1
        /\ \E hasDownloadUrl \in BOOLEAN :
             /\ Sent(p, "uploadAsset", IF hasDownloadUrl THEN "ok" ELSE "okNoUrl")
             /\ pc' = [pc EXCEPT ![p] = "patch_fallback"]
             /\ loc' = [loc EXCEPT ![p].assetUrl =
                          AssetUrl(ReleaseTag, FileName)]
  /\ UNCHANGED <<unitVars, storeVars, releaseExists, envVars>>

\* POST {upload_url}?name={filename}, then uploaded.data.browser_download_url
GhUpload(p) ==
  /\ pc[p] = "gh_upload"
  /\ \/ /\ Sent(p, "uploadAsset", "error")
        /\ Fail(p, "uploadAsset", OtherErrorBody)
        /\ UNCHANGED <<assets, nextAssetId>>
     \/ /\ releaseExists
        /\ assets' = Append(assets, [id |-> nextAssetId, name |-> FileName,
                                     content |-> loc[p].run])
        /\ nextAssetId' = nextAssetId + 1
        /\ \E hasDownloadUrl \in BOOLEAN :
             IF hasDownloadUrl
               THEN /\ Sent(p, "uploadAsset", "ok")
                    /\ pc' = [pc EXCEPT ![p] = "patch_fallback"]
                    /\ loc' = [loc EXCEPT ![p].assetUrl =
                                 AssetUrl(ReleaseTag, FileName)]
               ELSE /\ Sent(p, "uploadAsset", "okNoUrl")
                    /\ Fail(p, "uploadAsset", "browser_download_url is missing")
  /\ UNCHANGED <<unitVars, storeVars, releaseExists, envVars>>

\* A fallback patch whose failure is passed over.
PatchFallbackErrorIgnored(p) ==
  /\ pc[p] = "patch_fallback"
  /\ \/ /\ Sent(p, "patchAttachment", "error")
        /\ ReturnAttached(p, fallbackResult(loc[p].assetUrl))
        /\ UNCHANGED storeVars
     \/ /\ Sent(p, "patchAttachment", "ok")
        /\ ApplyPatch(attachmentFieldValue(
             [id |-> "", url |-> loc[p].assetUrl, filename |-> FileName]))
        /\ ReturnAttached(p, fallbackResult(loc[p].assetUrl))
  /\ UNCHANGED <<unitVars, hostVars, envVars>>

\* updateAirtableRecord({fields: {[attachmentField]: [{url: assetUrl, filename}]}})
PatchFallback(p) ==
  /\ pc[p] = "patch_fallback"
  /\ \/ /\ Sent(p, "patchAttachment", "error")
        /\ Fail(p, "patchAttachment", OtherErrorBody)
        /\ UNCHANGED storeVars
     \/ /\ Sent(p, "patchAttachment", "ok")
        /\ ApplyPatch(attachmentFieldValue(
             [id |-> "", url |-> loc[p].assetUrl, filename |-> FileName]))
        /\ ReturnAttached(p, fallbackResult(loc[p].assetUrl))
  /\ UNCHANGED <<unitVars, hostVars, envVars>>

\* ------------------------------------------- updateAirtableTimestampField
\* Candidates in the opposite order.
candidateValuesDateFirst(now) == <<slice10(toISOString(now)), toISOString(now)>>

\* const candidateValues = [now.toISOString(), now.toISOString().slice(0, 10)]
candidateValues(now) == <<toISOString(now), slice10(toISOString(now))>>

MarkerReplies == {"ok", InvalidValueBody, OtherErrorBody}

\* The error thrown after the loop: `Field "${updatedAtField}" rejected both
\* datetime and date values. ...` followed by the last rejection.
MarkerTypeError(lastInvalidValueError) ==
  [step |-> "markerType", body |-> lastInvalidValueError.body,
   mentions |-> {UpdatedAtField, "datetime", "date"}]

\* A catch that goes on after every error.
continueAfterAny(error) == TRUE

\* catch (error) { if (isInvalidValueForColumnError(error)) continue; throw error; }
\* TRUE when the loop goes on to the next candidate.
continueAfter(error) == isInvalidValueForColumnError(error)

\* One turn of the loop over candidateValues.
MarkerPatch(p) ==
  /\ pc[p] = "marker"
  /\ LET values == candidateValues(loc[p].now)
         candidateValue == values[loc[p].candidate]
         l == [loc[p] EXCEPT !.sent = Append(@, candidateValue)]
     IN \E reply \in MarkerReplies :
          /\ Sent(p, "patchMarker", reply)
          /\ IF reply = "ok"
               THEN /\ marker' = candidateValue
                    /\ pc' = [pc EXCEPT ![p] = "done"]
                    /\ loc' = [loc EXCEPT ![p] = l]
               ELSE LET error == ErrorAt("patchMarker", reply)
                    IN /\ UNCHANGED marker
                       /\ IF continueAfter(error)
                            THEN IF loc[p].candidate < Len(values)
                                   THEN /\ pc' = pc
                                        /\ loc' = [loc EXCEPT ![p] =
                                                     [l EXCEPT !.candidate = @ + 1]]
                                   ELSE /\ pc' = [pc EXCEPT ![p] = "failed"]
                                        /\ loc' = [loc EXCEPT ![p] =
                                             [l EXCEPT !.error = MarkerTypeError(error)]]
                            ELSE /\ pc' = [pc EXCEPT ![p] = "failed"]
                                 /\ loc' = [loc EXCEPT ![p] = [l EXCEPT !.error = error]]
  /\ UNCHANGED <<unitVars, attachments, nextAttId, hostVars, envVars>>

\* A catch handler that reports the error and lets the process end normally.
ExitStatusReportOnly(settled) == 0

\* main().catch(... process.exit(1)): the status the process ends with when
\* the promise of main was fulfilled ("done") or rejected ("failed").
ExitStatus(settled) == IF settled = "failed" THEN 1 ELSE 0

\* The process ends.
Exit(p) ==
  /\ pc[p] \in {"done", "failed"}
  /\ lastOutcome' = IF pc[p] = "done" THEN loc[p].result.method ELSE "failed"
  /\ exitStatus' = ExitStatus(pc[p])
  /\ pc' = [pc EXCEPT ![p] = "idle"]
  /\ loc' = [loc EXCEPT ![p] = InitLoc]
  /\ reqs' = [reqs EXCEPT ![p] = <<>>]
  /\ UNCHANGED <<unitVars, storeVars, hostVars, clock, runNo, overlap>>

Next ==
  \/ Tick
  \/ \E p \in Procs : StartRun(p)
  \/ \E p \in Procs : FetchRecord(p)
  \/ \E p \in Procs : PrimaryUpload(p)
  \/ \E p \in Procs : Refetch(p)
  \/ \E p \in Procs : PatchPrimary(p)
  \/ \E p \in Procs : FallbackEnv(p)
  \/ \E p \in Procs : GhLookup(p)
  \/ \E p \in Procs : GhCreate(p)
  \/ \E p \in Procs : GhDelete(p)
  \/ \E p \in Procs : GhUpload(p)
  \/ \E p \in Procs : PatchFallback(p)
  \/ \E p \in Procs : MarkerPatch(p)
  \/ \E p \in Procs : Exit(p)

Spec == Init /\ [][Next]_vars

\* Someone else empties the attachment field of the record while a run is
\* between its upload and its re-fetch of the record (the case
\* existingAttachments.length === 0 of attachIcsWithFallback).
FieldEmptied ==
  /\ \E p \in Procs : pc[p] = "refetch"
  /\ attachments # <<>>
  /\ attachments' = <<>>
  /\ UNCHANGED <<marker, nextAttId, hostVars, envVars, runVars, unitVars>>

NextEdited ==
  \/ Next
  \/ FieldEmptied

\* The runs of Spec with a record that is edited under them.
SpecEdited == Init /\ [][NextEdited]_vars

\* ------------------------------------------------- invocations that overlap
\* The process slots of two invocations for the same record.
Overlapping == {1, 2}

\* The invoker does not wait for a run to end before it starts the next;
\* the record holds no attachment or MaxStale of them.
InitOverlap ==
  /\ InitCommon
  /\ Len(attachments) \in {0, MaxStale}
  /\ overlap = TRUE
  /\ call = NoCall
  /\ ret = NoResult

\* One of the two invocations starts, whether or not the other has ended.
StartOverlapping(p) ==
  /\ p \in Overlapping
  /\ runNo < Cardinality(Overlapping)
  /\ StartRun(p)

\* The steps of the two invocations in any order; the clock stands still.
NextOverlap ==
  \/ \E p \in Procs : StartOverlapping(p)
  \/ \E p \in Procs : FetchRecord(p)
  \/ \E p \in Procs : PrimaryUpload(p)
  \/ \E p \in Procs : Refetch(p)
  \/ \E p \in Procs : PatchPrimary(p)
  \/ \E p \in Procs : FallbackEnv(p)
  \/ \E p \in Procs : GhLookup(p)
  \/ \E p \in Procs : GhCreate(p)
  \/ \E p \in Procs : GhDelete(p)
  \/ \E p \in Procs : GhUpload(p)
  \/ \E p \in Procs : PatchFallback(p)
  \/ \E p \in Procs : MarkerPatch(p)
  \/ \E p \in Procs : Exit(p)

SpecOverlap == InitOverlap /\ [][NextOverlap]_vars

\* ------------------------------------------- functions applied on their own
\* Texts of up to n characters over alphabet.
RECURSIVE TextsUpTo(_, _)
TextsUpTo(alphabet, n) ==
  IF n = 0 THEN {<<>>}
  ELSE LET shorter == TextsUpTo(alphabet, n - 1)
       IN shorter \cup {<<c>> \o t : c \in alphabet, t \in {u \in shorter : Len(u) = n - 1}}

Alphabet == {BS, ",", ";", LF, CR, "n"}
Texts == TextsUpTo(Alphabet, MaxText)

\* A run of plain characters.
Pad(k) == [i \in 1..k |-> "n"]

\* Titles that make the SUMMARY line longer than one physical line, with
\* their last characters around the place of the first fold.
LongTexts == {Pad(k) \o t : k \in (MaxPad - 3)..MaxPad, t \in Texts}

RecordIds == {"rec1", "rec2"}
ShortTexts == {<<>>, <<"n">>, <<",">>}
BuildArgs ==
  [recordId : RecordIds, eventName : ShortTexts \ {<<>>}, startDate : {0},
   endDate : 1..2, location : ShortTexts, description : {<<>>, <<"n">>},
   now : 0..MaxClock]

EscapeCalls == {[fn |-> "escapeIcsText", value |-> v] : v \in Texts}
\* Titles that make the SUMMARY line about two physical lines long, with
\* their last characters around the place of the second fold.
TwoLineTexts ==
  {Pad(k) \o t : k \in (MaxPad + DefaultMaxLen - 3)..(MaxPad + DefaultMaxLen),
                 t \in Texts}

FoldCalls == {[fn |-> "foldIcsLine", value |-> v] : v \in LongTexts \cup TwoLineTexts}
BuildCalls == {[fn |-> "buildIcs", first |-> a, second |-> b] : a, b \in BuildArgs}

ApplyEscapeIcsText ==
  /\ call.fn = "escapeIcsText"
  /\ ~ret.ready
  /\ ret' = [ready |-> TRUE, text |-> escapeIcsText(call.value)]
  /\ UNCHANGED <<storeVars, hostVars, envVars, runVars, call>>

\* The SUMMARY line of buildIcs for the title call.value.
ApplyFoldIcsLine ==
  /\ call.fn = "foldIcsLine"
  /\ ~ret.ready
  /\ ret' = [ready |-> TRUE, text |-> TextLine(SummaryName, call.value)]
  /\ UNCHANGED <<storeVars, hostVars, envVars, runVars, call>>

Built(a) ==
  buildIcs(a.recordId, a.eventName, a.startDate, a.endDate, a.location,
           a.description, a.now)

\* The artifact is built twice.
ApplyBuildIcs ==
  /\ call.fn = "buildIcs"
  /\ ~ret.ready
  /\ ret' = [ready |-> TRUE, first |-> Built(call.first), second |-> Built(call.second)]
  /\ UNCHANGED <<storeVars, hostVars, envVars, runVars, call>>

\* Dispatch payloads, tokens and config files.
Payloads ==
  [recordId : {"", RecordId}, automationKey : {"", "a", "c"},
   tableName : {"", " ", "tblPayload"}]

Profile(key) ==
  [baseId |-> "app" \o key, tableId |-> "tbl" \o key,
   icsField |-> AttachmentField, updatedAtField |-> UpdatedAtField]

Entries(key) ==
  {Profile(key),
   [baseId |-> "app" \o key, tableId |-> " ", tableName |-> "Events " \o key,
    icsField |-> AttachmentField, updatedAtField |-> UpdatedAtField],
   [baseId |-> "app" \o key, icsField |-> AttachmentField,
    updatedAtField |-> UpdatedAtField],
   [tableId |-> "tbl" \o key, icsField |-> AttachmentField,
    updatedAtField |-> UpdatedAtField],
   NotAnObject}

ConfigMaps ==
  {<<>>} \cup {[k \in {"a"} |-> e] : e \in Entries("a")}
         \cup {[k \in {"b"} |-> Profile("b")]}
         \cup {[k \in {"a", "b"} |-> IF k = "a" THEN e ELSE Profile("b")] :
                 e \in Entries("a")}

MainCalls ==
  {[fn |-> "main", payload |-> p, airtableToken |-> t, configMap |-> c] :
     p \in Payloads, t \in {"", "token"}, c \in ConfigMaps}

\* main: const config = resolveAirtableConfig(payload)
ResolveConfig ==
  /\ call.fn = "main"
  /\ ~ret.ready
  /\ ret' = [ready |-> TRUE,
             config |-> resolveAirtableConfig(call.payload, call.airtableToken,
                                              call.configMap),
             requests |-> <<>>]
  /\ UNCHANGED <<storeVars, hostVars, envVars, runVars, call>>

\* main: the first request to the record store, fetchAirtableRecord, which
\* is reached when resolveAirtableConfig has returned.
FirstStoreRequest ==
  /\ call.fn = "main"
  /\ ret.ready
  /\ ret.config.error = ""
  /\ ret.requests = <<>>
  /\ ret' = [ret EXCEPT !.requests =
               <<[op |-> "fetchRecord", baseId |-> ret.config.baseId,
                  table |-> ret.config.tableIdOrName,
                  recordId |-> call.payload.recordId]>>]
  /\ UNCHANGED <<storeVars, hostVars, envVars, runVars, call>>

\* Attachment objects as a response may hold them: with or without id, url
\* and filename.
CandidateObjects ==
  [id : {"", " ", "attA"}, url : {"", "https://files.example/a"},
   filename : {"", "a.ics"}]

NormalizeCalls ==
  {[fn |-> "normalizeAttachmentForPatch", attachment |-> a, fallbackFilename |-> f] :
     a \in CandidateObjects, f \in {"", FileName}}

ApplyNormalizeAttachmentForPatch ==
  /\ call.fn = "normalizeAttachmentForPatch"
  /\ ~ret.ready
  /\ ret' = [ready |-> TRUE,
             reference |-> normalizeAttachmentForPatch(call.attachment,
                                                       call.fallbackFilename)]
  /\ UNCHANGED <<storeVars, hostVars, envVars, runVars, call>>

\* Upload responses that hold attachment objects at any of the places the
\* code looks at; the objects of a place carry its tag.
EntryWithId(tag) ==
  [id |-> "att" \o tag, url |-> AttUrl("att" \o tag), filename |-> FileName]
EntryWithUrl(tag) ==
  [id |-> "", url |-> "https://files.example/" \o tag, filename |-> ""]
Lists(tag) ==
  {<<>>,
   <<EntryWithId(tag \o "1")>>,
   <<EntryWithId(tag \o "1"), EntryWithUrl(tag \o "2")>>,
   <<EntryWithUrl(tag \o "1"), Null>>}
Places(tag) == {Absent} \cup {Present(l) : l \in Lists(tag)}

Responses ==
  {[isObject |-> TRUE, isArray |-> FALSE, id |-> i, url |-> u, filename |-> "",
    fields |-> f, direct |-> d, attachments |-> a, attachment |-> o, items |-> <<>>] :
     i \in {"", RecordId}, u \in {"", "https://files.example/bare"},
     f \in Places("F"), d \in Places("D"), a \in Places("A"),
     o \in {Absent, Present(<<EntryWithId("O")>>)}}
  \cup {[EmptyObject EXCEPT !.isArray = TRUE, !.items = l] : l \in Lists("I")}
  \cup {[EmptyObject EXCEPT !.isObject = FALSE]}

ExtractCalls ==
  {[fn |-> "extractLatestAttachmentFromUploadResponse", response |-> r] :
     r \in Responses}

ApplyExtractLatestAttachment ==
  /\ call.fn = "extractLatestAttachmentFromUploadResponse"
  /\ ~ret.ready
  /\ ret' = [ready |-> TRUE,
             reference |->
               extractLatestAttachmentFromUploadResponse(call.response, FileName)]
  /\ UNCHANGED <<storeVars, hostVars, envVars, runVars, call>>

\* The fields of a fetched record that main validates.
ValidateCalls ==
  {[fn |-> "validate", title |-> t, start |-> a, end |-> b] :
     t \in Titles, a \in DateValues, b \in DateValues}

\* main, lines 702-714, on the fields of the call.
ApplyValidation ==
  /\ call.fn = "validate"
  /\ ~ret.ready
  /\ ret' = [ready |-> TRUE,
             error |-> ValidationError(call.title, call.start, call.end)]
  /\ UNCHANGED <<storeVars, hostVars, envVars, runVars, call>>

InitUnits ==
  /\ InitCommon
  /\ attachments = <<>>
  /\ releaseExists = FALSE
  /\ overlap = FALSE
  /\ \/ call \in EscapeCalls
     \/ call \in FoldCalls
     \/ call \in BuildCalls
     \/ call \in MainCalls
     \/ call \in NormalizeCalls
     \/ call \in ExtractCalls
     \/ call \in ValidateCalls
  /\ ret = NoResult

NextUnits ==
  \/ ApplyEscapeIcsText
  \/ ApplyFoldIcsLine
  \/ ApplyBuildIcs
  \/ ResolveConfig
  \/ FirstStoreRequest
  \/ ApplyNormalizeAttachmentForPatch
  \/ ApplyExtractLatestAttachment
  \/ ApplyValidation

SpecUnits == InitUnits /\ [][NextUnits]_vars

\* ================================================================ claims
HasReq(p, op, at, reply) ==
  \E i \in 1..Len(reqs[p]) : reqs[p][i] = [op |-> op, at |-> at, reply |-> reply]

GhOps == {"getRelease", "createRelease", "deleteAsset", "uploadAsset"}

\* A request of the run went to the fallback asset host.
FallbackInvoked(p) == \E i \in 1..Len(reqs[p]) : reqs[p][i].op \in GhOps

\* The primary attachment patch of the run succeeded.
PrimaryPatched(p) == HasReq(p, "patchAttachment", "patch", "ok")

\* The fallback attachment patch of the run succeeded.
FallbackPatched(p) == HasReq(p, "patchAttachment", "patch_fallback", "ok")

\* attachIcsWithFallback has returned normally in the run.
AttachSucceeded(p) == PrimaryPatched(p) \/ FallbackPatched(p)

\* C1: once attachIcsWithFallback has succeeded in a run, by the primary or
\* by the fallback path, the record's attachment field is a list of exactly
\* one entry, however many entries (0, 1, many) it held when the run began.
C1_Collapse == \A p \in Procs : AttachSucceeded(p) => Len(attachments) = 1

\* C1 witness: a run that began with MaxStale stale entries has attached.
C1_Witness ==
  \E p \in Procs :
    /\ AttachSucceeded(p)
    /\ Len(loc[p].attachmentsAtStart) = MaxStale
    /\ MaxStale >= 2
    /\ Len(attachments) = 1

\* C2: after a successful primary-path patch the single entry of the
\* attachment field holds the artifact built and uploaded in this run and
\* carries its filename, whatever shape the upload response had and also
\* when the reference came from the re-fetch.
C2_FreshArtifact ==
  \A p \in Procs :
    PrimaryPatched(p) =>
      /\ Len(attachments) = 1
      /\ attachments[1].content = loc[p].run
      /\ attachments[1].filename = FileName

\* C2 witness: a run that began with stale entries resolved its reference
\* by the re-fetch and patched it.
C2_Witness ==
  \E p \in Procs :
    /\ PrimaryPatched(p)
    /\ HasReq(p, "fetchRecord", "refetch", "ok")
    /\ Len(loc[p].attachmentsAtStart) >= 1
    /\ attachments[1].content = loc[p].run

\* What made a run leave the primary path.
UploadFailed(p) == HasReq(p, "uploadAttachment", "upload", "error")
NormalizationFailed(p) ==
  HasReq(p, "fetchRecord", "refetch", "error") \/ loc[p].primaryFailure = "unresolved"
PrimaryPatchFailed(p) == HasReq(p, "patchAttachment", "patch", "error")

\* The run has reached the code after the try block.
FallbackTaken(p) ==
  \/ pc[p] \in {"fallback", "gh_lookup"}
  \/ FallbackInvoked(p)
  \/ loc[p].error.step = "fallbackEnv"

Ended(p) == pc[p] \in {"done", "failed"}

\* C3 as stated: the fallback path is taken (the fallback asset host is
\* turned to) if and only if the primary upload request failed or the
\* normalization step (extraction plus re-fetch) failed to resolve a
\* reference; nothing else makes a run take it.
C3_AsStated ==
  \A p \in Procs :
    FallbackTaken(p) <=> (UploadFailed(p) \/ NormalizationFailed(p))

\* C3 amended: the fallback path is taken if and only if the primary upload
\* request failed, the normalization step failed to resolve a reference, or
\* the primary attachment patch request failed; a run that took it has sent
\* a request to the fallback asset host by its end unless it stopped for
\* missing host credentials.
C3_FallbackIff ==
  \A p \in Procs :
    /\ FallbackTaken(p) <=>
         (UploadFailed(p) \/ NormalizationFailed(p) \/ PrimaryPatchFailed(p))
    /\ (Ended(p) /\ FallbackTaken(p)) =>
         (FallbackInvoked(p) <=> loc[p].error.step # "fallbackEnv")

\* C3 witness: a run whose upload and extraction succeeded took the
\* fallback path because its primary patch failed.
C3_Witness ==
  \E p \in Procs :
    /\ PrimaryPatchFailed(p)
    /\ ~UploadFailed(p)
    /\ ~NormalizationFailed(p)
    /\ FallbackInvoked(p)
    /\ Ended(p)

FallbackPcs == {"fallback", "gh_lookup", "gh_create", "gh_delete", "gh_upload",
                "patch_fallback"}

\* C4: a run whose primary upload succeeded, whose reference was resolved
\* and whose primary patch succeeded sends no request to the fallback asset
\* host and reports the primary path as the method used.
C4_PrimaryNoFallback ==
  \A p \in Procs :
    PrimaryPatched(p) =>
      /\ ~FallbackInvoked(p)
      /\ pc[p] \notin FallbackPcs
      /\ loc[p].result.method = "airtable_upload_attachment"
      /\ loc[p].result.assetUrl = ""

\* C4 witness: a run has ended successfully by the primary path.
C4_Witness ==
  \E p \in Procs :
    /\ PrimaryPatched(p)
    /\ HasReq(p, "uploadAttachment", "upload", "ok")
    /\ pc[p] = "done"

CountOp(p, op) == Len(SelectSeq(reqs[p], LAMBDA r : r.op = op))

\* A request of the fallback path was answered with a failure.
FallbackFailureAt(p, i) ==
  /\ reqs[p][i].at \in FallbackPcs
  /\ reqs[p][i].reply \in {"error", "okNoUrl"}

\* C5: a run sends at most one primary upload request and enters the
\* fallback path at most once, sends no primary-path request after a
\* fallback request, and a failure of any fallback request (container
\* lookup or create, asset delete, asset upload, final patch) is the run's
\* last request and leaves the run failed.
C5_FallbackOnceAndFatal ==
  \A p \in Procs :
    /\ CountOp(p, "uploadAttachment") <= 1
    /\ CountOp(p, "getRelease") <= 1
    /\ \A i, j \in 1..Len(reqs[p]) :
         (reqs[p][i].at \in FallbackPcs /\ reqs[p][j].at \in {"upload", "refetch", "patch"})
           => j < i
    /\ \A i \in 1..Len(reqs[p]) :
         FallbackFailureAt(p, i) => (i = Len(reqs[p]) /\ pc[p] = "failed")
    /\ loc[p].error.step \in {"fallbackEnv", "uploadUrl"} => pc[p] = "failed"

\* C5 witness: a run whose primary upload failed has failed in the delete
\* request of the fallback path.
C5_Witness ==
  \E p \in Procs :
    /\ UploadFailed(p)
    /\ HasReq(p, "deleteAsset", "gh_delete", "error")
    /\ pc[p] = "failed"

Succeeded(outcome) == outcome \in {"airtable_upload_attachment", "github_release_url"}

\* C6: when a run for the record succeeds right after a run that succeeded,
\* the attachment field holds exactly one entry at the end of the second
\* run, whichever paths the two runs took, and the exit of a successful run
\* leaves that entry as it is.
C6_Idempotent ==
  /\ \A p \in Procs :
       (pc[p] = "done" /\ Succeeded(lastOutcome)) => Len(attachments) = 1
  /\ ((\A q \in Procs : pc[q] = "idle") /\ Succeeded(lastOutcome))
       => Len(attachments) = 1

\* C6 witness: a run that took the primary path has succeeded right after a
\* run that succeeded by the fallback path.
C6_Witness ==
  \E p \in Procs :
    /\ pc[p] = "done"
    /\ lastOutcome = "github_release_url"
    /\ loc[p].result.method = "airtable_upload_attachment"
    /\ Len(attachments) = 1

\* C7 as stated: after a successful run the marker field holds a value that
\* denotes an instant at or after the moment the run started, for the full
\* timestamp and for the date-only value alike.
C7_MarkerNotBeforeRun ==
  \A p \in Procs : pc[p] = "done" => Instant(marker) >= loc[p].startedAt

MarkerReqs(p) == SelectSeq(reqs[p], LAMBDA r : r.op = "patchMarker")

\* C8: the marker update sends the full timestamp first and the date-only
\* value second, the second only after the first was rejected with the
\* column-type error, and nothing after an accepted value: an accepted
\* timestamp is the only patch sent and is what the field holds, and a field
\* that rejected only the timestamp ends with the date-only value written
\* and the run successful.
C8_TimestampFirst ==
  \A p \in Procs :
    LET m == MarkerReqs(p)
        sent == loc[p].sent
    IN /\ Len(m) = Len(sent)
       /\ Len(sent) <= 2
       /\ Len(sent) >= 1 =>
            (sent[1] = toISOString(loc[p].now) /\ Representation(sent[1]) = "datetime")
       /\ Len(sent) = 2 =>
            /\ Representation(sent[2]) = "date"
            /\ sent[2].date = sent[1].date
            /\ m[1].reply = InvalidValueBody
       /\ (Len(m) >= 1 /\ m[1].reply = "ok") =>
            (Len(m) = 1 /\ pc[p] = "done" /\ marker = sent[1])
       /\ (Len(m) = 2 /\ m[2].reply = "ok") =>
            (pc[p] = "done" /\ marker = sent[2] /\ Representation(marker) = "date")

\* C8 witness: a run has succeeded with the date-only value after the
\* timestamp was rejected.
C8_Witness ==
  \E p \in Procs :
    /\ pc[p] = "done"
    /\ Len(loc[p].sent) = 2
    /\ Representation(marker) = "date"

\* C9: in the marker update an error other than the column-type rejection
\* is the last marker request of the run and fails the run with that error;
\* when both candidates were rejected with the column-type error the run
\* fails with an error naming the marker field and both representations;
\* in both cases the marker field holds what it held when the run began.
C9_MarkerErrors ==
  \A p \in Procs :
    LET m == MarkerReqs(p)
    IN /\ \A i \in 1..Len(m) :
            m[i].reply = OtherErrorBody =>
              /\ i = Len(m)
              /\ pc[p] = "failed"
              /\ loc[p].error.step = "patchMarker"
              /\ loc[p].error.body = OtherErrorBody
              /\ marker = loc[p].markerAtStart
       /\ (Len(m) = 2 /\ m[1].reply = InvalidValueBody /\ m[2].reply = InvalidValueBody) =>
            /\ pc[p] = "failed"
            /\ {UpdatedAtField, "datetime", "date"} \subseteq loc[p].error.mentions
            /\ marker = loc[p].markerAtStart

\* C9 witness: both candidates of a run were rejected with the column-type
\* error, after an earlier run had written the marker.
C9_Witness ==
  \E p \in Procs :
    /\ loc[p].error.step = "markerType"
    /\ Len(MarkerReqs(p)) = 2
    /\ loc[p].markerAtStart # BlankMarker

\* The asset upload of the run was accepted by the host.
AssetUploaded(p) ==
  HasReq(p, "uploadAsset", "gh_upload", "ok") \/ HasReq(p, "uploadAsset", "gh_upload", "okNoUrl")

\* C10: with runs that do not overlap the container never holds two assets
\* with the artifact's filename; once the asset upload of a run was
\* accepted it holds exactly one, the run's own, whether or not one existed
\* before and whether or not the container had to be created; an asset that
\* existed before was deleted (reply ok or not-found) before the upload,
\* and a not-found reply to the delete does not fail the run.
C10_OneAssetPerName ==
  /\ Len(SelectAssets(assets, FileName)) <= 1
  /\ \A p \in Procs :
       /\ AssetUploaded(p) =>
            /\ Len(SelectAssets(assets, FileName)) = 1
            /\ SelectAssets(assets, FileName)[1].content = loc[p].run
            /\ loc[p].hadAsset =>
                 \E i, j \in 1..Len(reqs[p]) :
                   /\ i < j
                   /\ reqs[p][i].op = "deleteAsset"
                   /\ reqs[p][i].reply \in {"ok", "notFound"}
                   /\ reqs[p][j].op = "uploadAsset"
       /\ HasReq(p, "deleteAsset", "gh_delete", "notFound") =>
            loc[p].error.step # "deleteAsset"

\* C10 witness: a run found an asset with the filename, got not-found for
\* its delete and completed the upload.
C10_Witness ==
  \E p \in Procs :
    /\ loc[p].hadAsset
    /\ HasReq(p, "deleteAsset", "gh_delete", "notFound")
    /\ HasReq(p, "uploadAsset", "gh_upload", "ok")
    /\ pc[p] = "patch_fallback"

Parses(value) == value.kind = "date"

\* C11: validation rejects a record exactly when its title is empty after
\* trimming, its start or its end is missing or does not parse, or its end
\* is not strictly after its start (equal included); every record that
\* passes validation has an end after its start.
C11_Validation ==
  (call.fn = "validate" /\ ret.ready) =>
    /\ ret.error # "" <=>
         \/ call.title \in {"", " "}
         \/ ~Parses(call.start)
         \/ ~Parses(call.end)
         \/ call.end.t <= call.start.t
    /\ ret.error = "" =>
         Parses(call.start) /\ Parses(call.end) /\ call.end.t > call.start.t

\* C11 witness: a titled record whose end equals its start was rejected.
C11_Witness ==
  /\ call.fn = "validate"
  /\ ret.ready
  /\ call.title = "Standup"
  /\ Parses(call.start)
  /\ call.end = call.start
  /\ ret.error = "Invalid event range"

\* The marker update of the run succeeded.
MarkerUpdated(p) == HasReq(p, "patchMarker", "marker", "ok")

\* C12: a process exits with status zero exactly when, in its run, the
\* attachment patch (of the primary or of the fallback path) and the marker
\* update both succeeded; a run stopped by an error (validation, fallback
\* failure after primary failure, failed fallback patch, marker failure)
\* exits with a status other than zero.
C12_ExitStatus ==
  [][\A p \in Procs :
       Exit(p) =>
         /\ exitStatus' = 0 <=> (AttachSucceeded(p) /\ MarkerUpdated(p))
         /\ loc[p].error # NoError => exitStatus' # 0]_vars

\* C12 witness: a process has exited with a non-zero status after a run
\* whose attachment patch succeeded and whose marker update failed.
C12_Witness ==
  /\ exitStatus = 1
  /\ lastOutcome = "failed"
  /\ \A p \in Procs : pc[p] = "idle"
  /\ Len(attachments) = 1
  /\ attachments[1].content = runNo
  /\ marker = BlankMarker

\* C13: building the artifact twice gives the same UID line exactly when the
\* two builds are for the same recordId, whatever the title, location,
\* description, start, end and time of the two builds are.
C13_UidOfRecordId ==
  (call.fn = "buildIcs" /\ ret.ready) =>
    (ret.first.uid = ret.second.uid <=> call.first.recordId = call.second.recordId)

\* C13 witness: two builds for one recordId that differ in title, location,
\* end and time of the build, and so in their SUMMARY and DTSTAMP lines.
C13_Witness ==
  /\ call.fn = "buildIcs"
  /\ ret.ready
  /\ call.first.recordId = call.second.recordId
  /\ call.first.eventName # call.second.eventName
  /\ call.first.location # call.second.location
  /\ call.first.endDate # call.second.endDate
  /\ ret.first.summary # ret.second.summary
  /\ ret.first.dtstamp # ret.second.dtstamp

RECURSIVE WellEscaped(_)
\* Every backslash of text starts one of the escape sequences \\ \n \, \;
\* and no comma, semicolon or newline stands outside such a sequence.
WellEscaped(text) ==
  IF text = <<>> THEN TRUE
  ELSE IF Head(text) = BS
    THEN /\ Len(text) >= 2
         /\ text[2] \in {BS, "n", ",", ";"}
         /\ WellEscaped(SubSeq(text, 3, Len(text)))
    ELSE /\ Head(text) \notin {",", ";", LF}
         /\ WellEscaped(Tail(text))

\* C14: the text escapeIcsText returns holds no backslash, comma, semicolon
\* or newline (line feed) outside an escape sequence.
C14_Escaped ==
  (call.fn = "escapeIcsText" /\ ret.ready) => WellEscaped(ret.text)

\* C14 witness: a text of a backslash, a comma and a newline was escaped.
C14_Witness ==
  /\ call.fn = "escapeIcsText"
  /\ ret.ready
  /\ call.value = <<BS, ",", LF>>
  /\ ret.text = <<BS, BS, BS, ",", BS, "n">>

\* The text starts with the line break of a fold.
FoldBreakAt(text) == Len(text) >= 2 /\ text[1] = CR /\ text[2] = LF

RECURSIVE SplitsEscape(_, _)
\* A fold of text comes right after the backslash that starts an escape
\* sequence (inEscape: the character before text was such a backslash).
SplitsEscape(text, inEscape) ==
  IF text = <<>> THEN FALSE
  ELSE IF FoldBreakAt(text)
    THEN inEscape \/ SplitsEscape(SubSeq(text, 4, Len(text)), FALSE)
  ELSE IF inEscape THEN SplitsEscape(Tail(text), FALSE)
  ELSE SplitsEscape(Tail(text), Head(text) = BS)

RECURSIVE ContinuationsMarked(_)
\* Every line break of text is followed by a space.
ContinuationsMarked(text) ==
  IF text = <<>> THEN TRUE
  ELSE IF FoldBreakAt(text)
    THEN /\ Len(text) >= 3
         /\ text[3] = " "
         /\ ContinuationsMarked(SubSeq(text, 4, Len(text)))
  ELSE ContinuationsMarked(Tail(text))

\* C15 as stated: a folded SUMMARY line of more than 75 characters has no
\* fold between the backslash and the escaped character of an escape
\* sequence, and every continuation line starts with a space.
C15_FoldKeepsEscapes ==
  (call.fn = "foldIcsLine" /\ ret.ready) =>
    /\ ~SplitsEscape(ret.text, FALSE)
    /\ ContinuationsMarked(ret.text)

\* C16: when the config file holds more than one entry and the payload has
\* no automationKey, resolution fails and no request is sent to the record
\* store; when it holds exactly one entry and the payload has no key,
\* resolution is for that entry (it yields that entry's settings, or fails
\* for what that entry lacks); a key that names no entry fails; a tableName
\* of the payload is the table of the request whatever table the profile
\* names. A failed resolution is never followed by a store request.
C16_ProfileResolution ==
  (call.fn = "main" /\ ret.ready) =>
    LET keys == DOMAIN call.configMap
        key == nonEmptyString(call.payload.automationKey)
        tableName == nonEmptyString(call.payload.tableName)
        config == ret.config
    IN /\ config.error # "" => ret.requests = <<>>
       /\ (Cardinality(keys) > 1 /\ key = "") => config.error # ""
       /\ (Cardinality(keys) = 1 /\ key = "") =>
            /\ config.error # "multiple automation configs"
            /\ config.error = "" =>
                 /\ config.automationKey \in keys
                 /\ config.baseId = call.configMap[config.automationKey].baseId
       /\ (key # "" /\ key \notin keys) => config.error # ""
       /\ (config.error = "" /\ tableName # "") =>
            /\ config.tableIdOrName = tableName
            /\ \A i \in 1..Len(ret.requests) : ret.requests[i].table = tableName

\* C16 witness: the only entry of the config file was used without a key,
\* and the request went to the table the payload names.
C16_Witness ==
  /\ call.fn = "main"
  /\ ret.ready
  /\ DOMAIN call.configMap = {"a"}
  /\ call.payload.automationKey = ""
  /\ call.payload.tableName = "tblPayload"
  /\ ret.config.automationKey = "a"
  /\ Len(ret.requests) = 1
  /\ ret.requests[1].table = "tblPayload"
  /\ call.configMap["a"] = Profile("a")

\* The places of a response where attachment objects are looked for, in the
\* order the code lists them: the lists found there.
PlaceLists(response) ==
  <<IF response.fields.has THEN response.fields.list ELSE <<>>,
    IF response.direct.has THEN response.direct.list ELSE <<>>,
    IF response.attachments.has THEN response.attachments.list ELSE <<>>,
    IF response.attachment.has THEN response.attachment.list ELSE <<>>,
    <<[id |-> response.id, url |-> response.url, filename |-> response.filename]>>>>

Usable(attachment) == attachment.id \notin {"", " "} \/ attachment.url \notin {"", " "}

\* The places whose last entry is a usable reference.
UsablePlaces(response) ==
  {k \in 1..5 : LET list == PlaceLists(response)[k]
                IN Len(list) > 0 /\ Usable(Last(list))}

\* C17 as stated: when more than one place of the response holds a usable
\* reference, the reference returned is the last entry of the earliest such
\* place in the order fields[field], response[field], attachments,
\* attachment, the response itself.
C17_EarliestPlace ==
  (call.fn = "extractLatestAttachmentFromUploadResponse" /\ ret.ready
     /\ call.response.isObject /\ ~call.response.isArray
     /\ Cardinality(UsablePlaces(call.response)) > 1) =>
    LET k == CHOOSE k \in UsablePlaces(call.response) :
                 \A j \in UsablePlaces(call.response) : k <= j
        entry == Last(PlaceLists(call.response)[k])
    IN IF entry.id \notin {"", " "}
         THEN ret.reference.id = entry.id
         ELSE ret.reference.url = entry.url

\* C18: normalizeAttachmentForPatch returns the id alone when the candidate
\* has a non-empty id, whether or not it has a url; else the url with the
\* candidate's filename, or with the artifact's filename when the candidate
\* has none, when the candidate has a non-empty url; else no reference; it
\* never returns an id together with a url.
C18_NormalizedReference ==
  (call.fn = "normalizeAttachmentForPatch" /\ ret.ready) =>
    LET a == call.attachment
        r == ret.reference
    IN /\ a.id \notin {"", " "} => r = [id |-> a.id, url |-> "", filename |-> ""]
       /\ (a.id \in {"", " "} /\ a.url \notin {"", " "}) =>
            /\ r.id = ""
            /\ r.url = a.url
            /\ r.filename = IF a.filename \notin {"", " "} THEN a.filename
                            ELSE call.fallbackFilename
       /\ (a.id \in {"", " "} /\ a.url \in {"", " "}) => r = Null
       /\ ~(r.id # "" /\ r.url # "")

\* C18 witness: a candidate with an id and a url gave the id alone.
C18_Witness ==
  /\ call.fn = "normalizeAttachmentForPatch"
  /\ ret.ready
  /\ call.attachment.id = "attA"
  /\ call.attachment.url # ""
  /\ ret.reference = [id |-> "attA", url |-> "", filename |-> ""]

UploadOk == [op |-> "uploadAttachment", at |-> "upload", reply |-> "ok"]
RefetchOk == [op |-> "fetchRecord", at |-> "refetch", reply |-> "ok"]

\* The requests the run sent from the re-fetch step.
RefetchReqs(p) == SelectSeq(reqs[p], LAMBDA r : r.at = "refetch")

\* C19: a run re-fetches the record at most once, only right after an
\* upload that succeeded and only when no reference was extracted from the
\* upload response (after a successful extraction the run goes on to the
\* patch). When the re-fetched list is not empty its last element is the
\* reference and the patch that follows leaves it as the only entry; when
\* the list is empty the primary path ends without a patch and the run is
\* on the fallback path.
C19_Refetch ==
  \A p \in Procs :
    LET n == Len(reqs[p])
    IN /\ Len(RefetchReqs(p)) <= 1
       /\ \A i \in 1..n :
            reqs[p][i].at = "refetch" => (i > 1 /\ reqs[p][i - 1] = UploadOk)
       /\ (n > 0 /\ reqs[p][n] = UploadOk) =>
            /\ loc[p].latestAttachment = Null => pc[p] = "refetch"
            /\ loc[p].latestAttachment # Null => pc[p] = "patch"
       /\ (n > 0 /\ reqs[p][n] = RefetchOk) =>
            IF attachments # <<>>
              THEN /\ pc[p] = "patch"
                   /\ loc[p].latestAttachment.id = Last(attachments).id
              ELSE /\ FallbackTaken(p)
                   /\ loc[p].primaryFailure = "unresolved"
       /\ (n > 1 /\ reqs[p][n - 1] = RefetchOk
             /\ reqs[p][n] = [op |-> "patchAttachment", at |-> "patch", reply |-> "ok"]) =>
            /\ Len(attachments) = 1
            /\ attachments[1].content = loc[p].run
       /\ loc[p].primaryFailure = "unresolved" =>
            /\ ~HasReq(p, "patchAttachment", "patch", "ok")
            /\ ~HasReq(p, "patchAttachment", "patch", "error")
            /\ FallbackTaken(p) \/ pc[p] = "idle"

\* C19 witness: the re-fetch found the field empty and the run is on the
\* fallback path without having sent a primary patch.
C19_Witness ==
  \E p \in Procs :
    /\ Len(reqs[p]) > 0
    /\ Last(reqs[p]) = RefetchOk
    /\ attachments = <<>>
    /\ pc[p] = "fallback"

UploadError == [op |-> "uploadAttachment", at |-> "upload", reply |-> "error"]

\* C20: after a primary upload request that got a non-success response the
\* run sends no re-fetch and no primary attachment patch, the run does not
\* end with the upload's error (it is on the fallback path), and the next
\* request it sends, if any, goes to the fallback asset host.
C20_UploadErrorAbortsPrimary ==
  \A p \in Procs :
    \A i \in 1..Len(reqs[p]) :
      reqs[p][i] = UploadError =>
        /\ \A j \in (i + 1)..Len(reqs[p]) :
             /\ reqs[p][j].at \notin {"upload", "refetch", "patch"}
             /\ j = i + 1 => reqs[p][j].op \in GhOps
        /\ loc[p].error.step # "upload"
        /\ FallbackTaken(p)

\* C20 witness: the request after a failed primary upload went to the
\* fallback asset host, and the run went on to succeed.
C20_Witness ==
  \E p \in Procs :
    /\ Len(reqs[p]) >= 3
    /\ reqs[p][2] = UploadError
    /\ reqs[p][3].op = "getRelease"
    /\ pc[p] = "done"

LookupNotFound == [op |-> "getRelease", at |-> "gh_lookup", reply |-> "notFound"]
LookupOk == [op |-> "getRelease", at |-> "gh_lookup", reply |-> "ok"]

\* C21: a run asks the fallback host to create the release only right after
\* the lookup by tag answered not-found; after a lookup that succeeded it
\* sends no create request; a lookup that failed otherwise, and a create
\* that failed, is the last request of the run, which ends in failure.
C21_CreateOnlyWhenNotFound ==
  \A p \in Procs :
    \A i \in 1..Len(reqs[p]) :
      LET r == reqs[p][i]
      IN /\ r.op = "createRelease" => (i > 1 /\ reqs[p][i - 1] = LookupNotFound)
         /\ r = LookupOk =>
              \A j \in (i + 1)..Len(reqs[p]) : reqs[p][j].op # "createRelease"
         /\ (r.op \in {"getRelease", "createRelease"} /\ r.reply = "error") =>
              /\ i = Len(reqs[p])
              /\ pc[p] = "failed"
              /\ loc[p].error.step = r.op

\* C21 witness: the release was created after a not-found lookup and the
\* artifact was uploaded to it.
C21_Witness ==
  \E p \in Procs :
    /\ HasReq(p, "getRelease", "gh_lookup", "notFound")
    /\ HasReq(p, "createRelease", "gh_create", "ok")
    /\ HasReq(p, "uploadAsset", "gh_upload", "ok")

UploadedWithUrl == [op |-> "uploadAsset", at |-> "gh_upload", reply |-> "ok"]

\* The attachment the store makes of the reference {url, filename} of the
\* uploaded asset.
FromAsset(att) ==
  /\ att.src = AssetUrl(ReleaseTag, FileName)
  /\ att.filename = FileName

FallbackStep(p) ==
  /\ pc[p] \in FallbackPcs
  /\ pc'[p] # pc[p]
  /\ IF pc[p] = "patch_fallback" /\ pc'[p] = "marker"
       THEN /\ Len(attachments') = 1
            /\ FromAsset(attachments'[1])
       ELSE /\ attachments' = attachments
            /\ (pc'[p] = "failed" /\ pc[p] # "patch_fallback") =>
                 ~\E i \in 1..Len(reqs'[p]) : reqs'[p][i].at = "patch_fallback"

PatchStep(p) ==
  (pc'[p] = "patch_fallback" /\ pc[p] # "patch_fallback") =>
     /\ pc[p] = "gh_upload"
     /\ Last(reqs'[p]) = UploadedWithUrl
     /\ loc'[p].assetUrl = AssetUrl(ReleaseTag, FileName)

\* C22: the fallback patch is reached only from an asset upload that was
\* answered with a download URL, and when it succeeds the attachment field
\* is the single entry made of {url, filename} of that asset; every other
\* step of the fallback path, an upload without a download URL and a failure
\* of an earlier step included, leaves the attachment field as it was and
\* ends the run without a fallback patch request.
C22_FallbackPatchAfterUrl ==
  [][\A p \in Procs : (FallbackStep(p) \/ pc[p] \notin FallbackPcs \/ pc'[p] = pc[p])
                      /\ PatchStep(p)]_vars

\* C22 witness: the fallback patched the field with the single reference
\* to the uploaded asset.
C22_Witness ==
  \E p \in Procs :
    /\ HasReq(p, "uploadAsset", "gh_upload", "ok")
    /\ HasReq(p, "patchAttachment", "patch_fallback", "ok")
    /\ Len(attachments) = 1
    /\ FromAsset(attachments[1])

\* The place of a step in the chain of one invocation.
StageOf(at) ==
  CASE at = "fetch" -> 1
    [] at = "upload" -> 2
    [] at = "refetch" -> 3
    [] at = "patch" -> 4
    [] at = "gh_lookup" -> 5
    [] at = "gh_create" -> 6
    [] at = "gh_delete" -> 7
    [] at = "gh_upload" -> 8
    [] at = "patch_fallback" -> 9
    [] at = "marker" -> 10

PatchReqs(p) == SelectSeq(reqs[p], LAMBDA r : r.op = "patchAttachment")

MarkerFailed(p) ==
  /\ pc[p] = "failed"
  /\ loc[p].error.step \in {"patchMarker", "markerType"}

\* C24: an error the store answers to the marker patch sends the run to no
\* fallback request and to no other request: an error that is not the
\* column-type rejection is the last request of the run, the column-type
\* rejection is followed by the next candidate value only, the run ends
\* failed, and the attachment field still holds the single entry that this
\* run wrote.
C24_MarkerErrorFatal ==
  \A p \in Procs :
    /\ \A i \in 1..Len(reqs[p]) :
         reqs[p][i].op = "patchMarker" =>
           /\ \A j \in (i + 1)..Len(reqs[p]) : reqs[p][j].op = "patchMarker"
           /\ reqs[p][i].reply = OtherErrorBody =>
                (i = Len(reqs[p]) /\ MarkerFailed(p))
    /\ Len(MarkerReqs(p)) <= Len(candidateValues(0))
    /\ (Len(MarkerReqs(p)) = Len(candidateValues(0)) /\ Last(reqs[p]).reply # "ok") =>
         MarkerFailed(p)
    /\ MarkerFailed(p) =>
         /\ Last(reqs[p]).op = "patchMarker"
         /\ Last(reqs[p]).reply # "ok"
         /\ marker = loc[p].markerAtStart
         /\ Len(attachments) = 1
         /\ attachments[1].content = loc[p].run

\* C24 witness: a run that attached the file through the fallback path
\* failed at the marker patch with a store error.
C24_Witness ==
  \E p \in Procs :
    /\ MarkerFailed(p)
    /\ Last(reqs[p]).reply = OtherErrorBody
    /\ FallbackPatched(p)
    /\ Len(attachments) = 1

\* Both paths of the run failed: the primary path threw and the fallback
\* path ended the run.
BothPathsFailed(p) ==
  /\ pc[p] = "failed"
  /\ loc[p].primaryFailure # ""
  /\ ~AttachSucceeded(p)

\* C25: every marker patch request of a run comes after an attachment-field
\* patch request of the same run that succeeded; a run in which no
\* attachment patch has succeeded, one whose two paths both failed
\* included, has sent no marker patch request and the marker field holds
\* the value it had when the run began.
C25_MarkerAfterAttach ==
  \A p \in Procs :
    /\ \A i \in 1..Len(reqs[p]) :
         reqs[p][i].op = "patchMarker" =>
           \E j \in 1..(i - 1) :
             /\ reqs[p][j].op = "patchAttachment"
             /\ reqs[p][j].reply = "ok"
    /\ (pc[p] # "idle" /\ ~AttachSucceeded(p)) =>
         /\ MarkerReqs(p) = <<>>
         /\ marker = loc[p].markerAtStart

\* C25 witness: the primary upload and then the fallback patch failed in a
\* run that began with a marker written by an earlier run.
C25_Witness ==
  \E p \in Procs :
    /\ BothPathsFailed(p)
    /\ UploadFailed(p)
    /\ HasReq(p, "patchAttachment", "patch_fallback", "error")
    /\ marker # BlankMarker
    /\ marker = loc[p].markerAtStart

Fetched == [op |-> "fetchRecord", at |-> "fetch", reply |-> "ok"]

\* The validation of the fetched fields failed in the run.
ValidationFailed(p) == loc[p].error.step = "validate" /\ loc[p].error.body # ""

\* C26: a run whose fetched fields fail validation (title missing, start
\* missing, a date that does not parse, end before start) fails right after
\* the fetch: the fetch is its only request, so that it sends no upload, no
\* attachment patch, no request to the fallback host and no marker patch,
\* and from the failure to the end of the run the record and the release
\* with its assets stay as they were.
C26_ValidationBeforeMutation ==
  [][\A p \in Procs :
       /\ (~ValidationFailed(p) /\ ValidationFailed(p)') =>
            /\ pc[p] = "fetch"
            /\ pc'[p] = "failed"
            /\ reqs'[p] = <<Fetched>>
            /\ UNCHANGED <<storeVars, hostVars>>
       /\ ValidationFailed(p) =>
            /\ pc[p] = "failed"
            /\ reqs[p] = <<Fetched>>
            /\ attachments = loc[p].attachmentsAtStart
            /\ marker = loc[p].markerAtStart
            /\ UNCHANGED <<storeVars, hostVars>>
            /\ \/ pc'[p] = "failed" /\ reqs'[p] = reqs[p]
               \/ pc'[p] = "idle" /\ exitStatus' = 1]_vars

\* C26 witness: validation failed in a run on a record that holds
\* attachments and a release that holds an asset.
C26_Witness ==
  \E p \in Procs :
    /\ ValidationFailed(p)
    /\ pc[p] = "failed"
    /\ attachments # <<>>
    /\ assets # <<>>

\* The invocation in slot p has completed successfully: it is at its end,
\* or its process has exited with status 0 as the last one to exit.
Completed(p) ==
  \/ pc[p] = "done"
  \/ pc[p] = "idle" /\ exitStatus = 0 /\ Succeeded(lastOutcome)

\* Both invocations were under way at the same time: each began before the
\* upload of the other reached the record.
Overlapped ==
  /\ \A p \in Overlapping : HasReq(p, "uploadAttachment", "upload", "ok")
  /\ loc[1].attachmentsAtStart = loc[2].attachmentsAtStart

\* C27: when two invocations for the same record have both completed
\* successfully, however their steps were interleaved, the attachment field
\* holds exactly one entry.
C27_OverlapSingleton ==
  (/\ runNo = Cardinality(Overlapping)
   /\ \A p \in Overlapping : Completed(p)
   /\ \E p \in Overlapping : pc[p] = "done") =>
    Len(attachments) = 1

\* C27 witness: two invocations that overlapped have both completed
\* successfully, one by the primary path and, its primary patch refused,
\* the other by the fallback path.
C27_Witness ==
  /\ Overlapped
  /\ \A p \in Overlapping : pc[p] = "done"
  /\ \E p, q \in Overlapping :
       /\ PrimaryPatched(p)
       /\ PrimaryPatchFailed(q)
       /\ FallbackPatched(q)
  /\ Len(attachments) = 1

\* No run is under way: every invocation has ended or not begun.
Quiescent == \A p \in Procs : pc[p] \in {"idle", "done", "failed"}

\* C28: with runs that do not overlap, whenever no run is under way and the
\* attachment field holds an entry made of the {url, filename} reference
\* that the fallback path writes, the release holds an asset with that
\* filename; a fallback run that failed has not left the record with a
\* reference to an asset that it deleted.
C28_ReferencedAssetExists ==
  Quiescent =>
    \A i \in 1..Len(attachments) :
      FromAsset(attachments[i]) =>
        \E k \in 1..Len(assets) : assets[k].name = FileName

\* The places in text where a line break CRLF begins.
LineBreaks(text) ==
  {i \in 1..(Len(text) - 1) : text[i] = CR /\ text[i + 1] = LF}

\* The places in text where a physical line begins.
LineStarts(text) == {1} \cup {i + 2 : i \in LineBreaks(text)}

\* The number of characters of the physical line that begins at start, the
\* space that starts a continuation line included.
PhysicalLength(text, start) ==
  LET ends == {i \in LineBreaks(text) : i >= start} \cup {Len(text) + 1}
  IN (CHOOSE e \in ends : \A f \in ends : e <= f) - start

PhysicalLinesFit(text, maxLen) ==
  \A start \in LineStarts(text) : PhysicalLength(text, start) <= maxLen

\* The text without its fold markers CRLF + space.
Unfold(text) ==
  LET markers == {i \in 1..(Len(text) - 2) : SubSeq(text, i, i + 2) = FoldMarker}
      kept == SelectSeq([i \in 1..Len(text) |-> i],
                        LAMBDA i : \A m \in markers : i < m \/ i > m + 2)
  IN [k \in 1..Len(kept) |-> text[kept[k]]]

\* C29 as stated: for a SUMMARY line of more than 75 characters every
\* physical line of the folded output, the space of a continuation line
\* included, has at most 75 characters, and the output without its fold
\* markers CRLF + space is the line that was folded.
C29_FoldLength ==
  (call.fn = "foldIcsLine" /\ ret.ready
     /\ Len(SummaryName \o escapeIcsText(call.value)) > DefaultMaxLen) =>
    /\ PhysicalLinesFit(ret.text, DefaultMaxLen)
    /\ Unfold(ret.text) = SummaryName \o escapeIcsText(call.value)
====
